---- MODULE Spec2Model ----
(***************************************************************************)
(* DynamicVectorMemoryResource and pmr_queue<T> (include/queue_pmr.hpp).   *)
(*                                                                         *)
(* One resource `mr` backs the queues of Queues; the caller may also call  *)
(* allocate / deallocate on the resource directly, as the tests do.  The   *)
(* system allocator (::operator new / ::operator delete) is modelled by    *)
(* the set `held` of addresses it currently has handed out: operator new   *)
(* may return any address outside `held`, in particular one that was       *)
(* released earlier.                                                       *)
(***************************************************************************)
EXTENDS Integers, Sequences, FiniteSets, TLC

\* ---------------------------------------------------------------- bounds
MaxAddr == 2        \* addresses the system allocator can hand out: 1..MaxAddr
MaxVal == 2         \* element values: 1..MaxVal
MaxBlocks == 3      \* cap on the number of do_allocate calls (length of blocks_)

\* ------------------------------------------------------- program constants
NULL == 0           \* nullptr
NodeBytes == 16     \* sizeof(QueueNode<int>)
NodeAlign == 8      \* alignof(QueueNode<int>)

Addr == 1..MaxAddr
Value == 1..MaxVal
Queues == {"q1", "q2"}
Iters == {1, 2}     \* the iterator variables of the caller
\* (bytes, alignment) pairs the caller passes to allocate / deallocate
Requests == {<<4, 4>>}

VARIABLES
    blocks_,      \* DynamicVectorMemoryResource::blocks_, a sequence of BlockInfo
    held,         \* addresses currently held from ::operator new
    doubleFree,   \* TRUE once ::operator delete was given an address not held
    mem,          \* node storage: mem[a] = [value, next] as last written at a
    constructed,  \* addresses at which a QueueNode object currently lives
    head_, tail_, size_,   \* pmr_queue fields, one per queue
    qpc,          \* per queue: "absent" (never constructed), "alive", "destroying"
                  \* (inside ~pmr_queue), "destroyed"
    rpc,          \* the resource: "alive" or "destroyed"
    lastOp,       \* the call made by the last step: operation, queue, address
                  \* (or iterator) argument or result, and the exception thrown
                  \* ("none" if none, "undefined" for undefined behaviour)
    iters,        \* QueueIterator::node_ of each iterator variable of the caller
    \* history variables
    pending,      \* per queue: the values pushed and not yet popped, oldest first
    origin,       \* parallel to blocks_: who asked for the block
    nodeFrees,    \* parallel to blocks_: times the queue passed this node to deallocate
    callerOwns,   \* addresses returned to the caller by allocate, not yet deallocated by it
    everReturned, \* addresses ever returned by do_allocate
    dtorReleased, \* addresses ~DynamicVectorMemoryResource passed to ::operator delete
    dtorVisited   \* per queue: the values of the nodes ~pmr_queue has destroyed, in order

vars == <<blocks_, held, doubleFree, mem, constructed, head_, tail_, size_, qpc, rpc,
          lastOp, iters, pending, origin, nodeFrees, callerOwns, everReturned,
          dtorReleased, dtorVisited>>

qvars == <<head_, tail_, size_, pending>>
hist == <<origin, nodeFrees, callerOwns, everReturned, dtorReleased, dtorVisited>>

\* ------------------------------------------------------------- the resource
BlockInfo(ptr, bytes, alignment, allocated) ==
    [ptr |-> ptr, size |-> bytes, alignment |-> alignment, allocated |-> allocated]

\* The resource together with the system allocator state it acts on.
Res == [blocks |-> blocks_, held |-> held, doubleFree |-> doubleFree]

\* ::operator delete(p, align): releases p; undefined if p is not held.
operator_delete(r, p) ==
    [r EXCEPT !.held = r.held \ {p},
              !.doubleFree = r.doubleFree \/ p \notin r.held]

\* std::find_if over blocks_: index of the first record with ptr = p,
\* Len(blocks)+1 for blocks_.end().
find_block(blocks, p) ==
    IF \E i \in 1..Len(blocks) : blocks[i].ptr = p
    THEN CHOOSE i \in 1..Len(blocks) :
             /\ blocks[i].ptr = p
             /\ \A j \in 1..(i - 1) : blocks[j].ptr # p
    ELSE Len(blocks) + 1

\* do_allocate, given the address ptr that ::operator new returned.
do_allocate(r, bytes, alignment, ptr) ==
    [r EXCEPT !.blocks = Append(r.blocks, BlockInfo(ptr, bytes, alignment, TRUE)),
              !.held = r.held \cup {ptr}]

\* do_deallocate that forgets `it->allocated = false`
do_deallocate_nomark(r, p, bytes, alignment) ==
    LET it == find_block(r.blocks, p) IN
    IF it # Len(r.blocks) + 1
    THEN IF r.blocks[it].allocated THEN operator_delete(r, p) ELSE r
    ELSE r

\* do_deallocate without the `if (it->allocated)` test
do_deallocate_unchecked(r, p, bytes, alignment) ==
    LET it == find_block(r.blocks, p) IN
    IF it # Len(r.blocks) + 1
    THEN [operator_delete(r, p) EXCEPT !.blocks[it].allocated = FALSE]
    ELSE r

do_deallocate(r, p, bytes, alignment) ==
    LET it == find_block(r.blocks, p) IN
    IF it # Len(r.blocks) + 1
    THEN IF r.blocks[it].allocated
         THEN [operator_delete(r, p) EXCEPT !.blocks[it].allocated = FALSE]
         ELSE r
    ELSE r

\* a destructor loop without the `if (block.allocated)` test
RECURSIVE ResourceDtorLoopAll(_, _, _)
ResourceDtorLoopAll(r, i, log) ==
    IF i > Len(r.blocks) THEN <<r, log>>
    ELSE ResourceDtorLoopAll(operator_delete(r, r.blocks[i].ptr), i + 1,
                             Append(log, r.blocks[i].ptr))

\* The loop of ~DynamicVectorMemoryResource over blocks_[i..], i the next
\* index and log the addresses released so far; yields the resource state
\* and the log when the loop ends.
RECURSIVE ResourceDtorLoop(_, _, _)
ResourceDtorLoop(r, i, log) ==
    IF i > Len(r.blocks) THEN <<r, log>>
    ELSE IF r.blocks[i].allocated
         THEN ResourceDtorLoop(operator_delete(r, r.blocks[i].ptr), i + 1,
                               Append(log, r.blocks[i].ptr))
         ELSE ResourceDtorLoop(r, i + 1, log)

\* ---------------------------------------------------------------- the queue
QueueNode(value) == [value |-> value, next |-> NULL]

\* The content of storage that holds no node object is indeterminate; the
\* model keeps this one representative for it.
Indeterminate == [value |-> 0, next |-> NULL]

\* an operator++ that stays on the last node instead of reaching the end
IterIncStay(node_) ==
    IF node_ # NULL /\ mem[node_].next # NULL THEN mem[node_].next ELSE node_

\* QueueIterator
IterInc(node_) == IF node_ # NULL THEN mem[node_].next ELSE node_
IterDeref(node_) == mem[node_].value
begin(q) == head_[q]
end(q) == NULL
empty(q) == head_[q] = NULL
front(q) == mem[head_[q]].value     \* the value front() returns on a non-empty queue
size(q) == size_[q]

\* for (it = begin(); it != end(); ++it) collect *it.  The loop is cut after
\* MaxAddr + 1 rounds, which a chain without a cycle never needs; a cut loop
\* yields a result ending in NULL, which no element sequence does.
RECURSIVE IterateFrom(_, _)
IterateFrom(it, fuel) ==
    IF it = NULL THEN <<>>
    ELSE IF fuel = 0 THEN <<NULL>>
    ELSE <<IterDeref(it)>> \o IterateFrom(IterInc(it), fuel - 1)

Iterate(q) == IterateFrom(begin(q), MaxAddr + 1)

\* The nodes visited by following next from head, in order.
RECURSIVE ChainFrom(_, _)
ChainFrom(n, fuel) ==
    IF n = NULL THEN <<>>
    ELSE IF fuel = 0 THEN <<NULL>>
    ELSE <<n>> \o ChainFrom(mem[n].next, fuel - 1)

Chain(q) == ChainFrom(head_[q], MaxAddr + 1)

SeqRange(s) == {s[i] : i \in 1..Len(s)}

\* Addresses the caller must not hand to deallocate: nodes linked in a queue
\* and blocks whose address never reached any caller.
Foreign ==
    UNION {SeqRange(Chain(q)) : q \in Queues}
    \cup {blocks_[i].ptr : i \in {j \in 1..Len(blocks_) :
                                     origin[j] = "lost" /\ blocks_[j].allocated}}

\* No destructor is running: the program is single-threaded.
Idle == rpc = "alive" /\ \A q \in Queues : qpc[q] # "destroying"

Op(op, q, arg, err) == [op |-> op, q |-> q, arg |-> arg, err |-> err]

\* The history record of the node object living at address a: the last
\* node block created at a.
NodeIndex(a) ==
    CHOOSE i \in 1..Len(blocks_) :
        /\ blocks_[i].ptr = a /\ origin[i] \in Queues
        /\ \A j \in (i + 1)..Len(blocks_) : ~(blocks_[j].ptr = a /\ origin[j] \in Queues)

\* The state after `DynamicVectorMemoryResource mr;` and, for each q of qs,
\* `pmr_queue<T> q(&mr);`
InitWith(qs) ==
    /\ blocks_ = <<>>
    /\ held = {}
    /\ doubleFree = FALSE
    /\ mem = [a \in Addr |-> Indeterminate]
    /\ constructed = {}
    /\ head_ = [q \in Queues |-> NULL]
    /\ tail_ = [q \in Queues |-> NULL]
    /\ size_ = [q \in Queues |-> 0]
    /\ qpc = [q \in Queues |-> IF q \in qs THEN "alive" ELSE "absent"]
    /\ rpc = "alive"
    /\ lastOp = Op("init", "", NULL, "none")
    /\ pending = [q \in Queues |-> <<>>]
    /\ origin = <<>>
    /\ nodeFrees = <<>>
    /\ callerOwns = {}
    /\ everReturned = {}
    /\ dtorReleased = <<>>
    /\ dtorVisited = [q \in Queues |-> <<>>]
    /\ iters = [i \in Iters |-> NULL]

\* one resource and one queue, as in the tests
Init == InitWith({"q1"})

\* one resource backing two queues, as in main
InitTwo == InitWith(Queues)

SetRes(r) ==
    /\ blocks_' = r.blocks
    /\ held' = r.held
    /\ doubleFree' = r.doubleFree

\* ------------------------------------------------ direct calls on the resource
\* mr.allocate(bytes, alignment) returning ptr
Allocate(bytes, alignment, ptr) ==
    /\ Idle
    /\ Len(blocks_) < MaxBlocks
    /\ ptr \notin held
    /\ SetRes(do_allocate(Res, bytes, alignment, ptr))
    /\ origin' = Append(origin, "caller")
    /\ nodeFrees' = Append(nodeFrees, 0)
    /\ callerOwns' = callerOwns \cup {ptr}
    /\ everReturned' = everReturned \cup {ptr}
    /\ lastOp' = Op("allocate", "", ptr, "none")
    /\ UNCHANGED <<mem, constructed, qvars, qpc, rpc, dtorReleased, dtorVisited, iters>>

\* mr.allocate when ::operator new throws std::bad_alloc
AllocateOOM(bytes, alignment) ==
    /\ Idle
    /\ lastOp' = Op("allocate", "", NULL, "bad_alloc")
    /\ UNCHANGED <<blocks_, held, doubleFree, mem, constructed, qvars, qpc, rpc, hist, iters>>

\* mr.deallocate(p, bytes, alignment)
Deallocate(p, bytes, alignment) ==
    /\ Idle
    /\ p \notin Foreign
    /\ SetRes(do_deallocate(Res, p, bytes, alignment))
    /\ callerOwns' = callerOwns \ {p}
    /\ lastOp' = Op("deallocate", "", p, "none")
    /\ UNCHANGED <<mem, constructed, qvars, qpc, rpc, origin, nodeFrees,
                   everReturned, dtorReleased, dtorVisited, iters>>

\* ~DynamicVectorMemoryResource; the caller destroys every queue first.
ResourceDtor ==
    /\ rpc = "alive"
    /\ \A q \in Queues : qpc[q] \in {"absent", "destroyed"}
    /\ LET out == ResourceDtorLoop(Res, 1, <<>>) IN
         /\ SetRes(out[1])
         /\ dtorReleased' = out[2]
    /\ rpc' = "destroyed"
    /\ lastOp' = Op("~resource", "", NULL, "none")
    /\ UNCHANGED <<mem, constructed, qvars, qpc, origin, nodeFrees, callerOwns,
                   everReturned, dtorVisited, iters>>

\* ------------------------------------------------------------ queue operations
\* push that forgets `tail_->next = newNode`
push_link_nolink(head, tail, sz, m, newNode) ==
    IF tail = NULL
    THEN [head |-> newNode, tail |-> newNode, size |-> sz + 1, mem |-> m]
    ELSE [head |-> head, tail |-> newNode, size |-> sz + 1, mem |-> m]

\* The linking part of push: the new node becomes the tail.
push_link(head, tail, sz, m, newNode) ==
    IF tail = NULL
    THEN [head |-> newNode, tail |-> newNode, size |-> sz + 1, mem |-> m]
    ELSE [head |-> head, tail |-> newNode, size |-> sz + 1,
          mem |-> [m EXCEPT ![tail].next = newNode]]

\* push that splices the node into the chain before constructing its value
PushLinkFirst(q, value, ptr, ctorOK) ==
    /\ Idle /\ qpc[q] = "alive"
    /\ Len(blocks_) < MaxBlocks
    /\ ptr \notin held
    /\ SetRes(do_allocate(Res, NodeBytes, NodeAlign, ptr))
    /\ nodeFrees' = Append(nodeFrees, 0)
    /\ everReturned' = everReturned \cup {ptr}
    /\ LET m == [mem EXCEPT ![ptr] = IF ctorOK THEN QueueNode(value) ELSE Indeterminate]
           l == push_link(head_[q], tail_[q], size_[q], m, ptr)
       IN /\ mem' = l.mem
          /\ head_' = [head_ EXCEPT ![q] = l.head]
          /\ tail_' = [tail_ EXCEPT ![q] = l.tail]
          /\ size_' = [size_ EXCEPT ![q] = l.size]
    /\ IF ctorOK
       THEN /\ constructed' = constructed \cup {ptr}
            /\ pending' = [pending EXCEPT ![q] = Append(@, value)]
            /\ origin' = Append(origin, q)
            /\ lastOp' = Op("push", q, NULL, "none")
       ELSE /\ origin' = Append(origin, "lost")
            /\ lastOp' = Op("push", q, NULL, "ctor")
            /\ UNCHANGED <<constructed, pending>>
    /\ UNCHANGED <<qpc, rpc, callerOwns, dtorReleased, dtorVisited, iters>>

\* q.push(value), when ::operator new returns ptr; ctorOK says whether
\* constructing the node's value succeeds or throws.
Push(q, value, ptr, ctorOK) ==
    /\ Idle /\ qpc[q] = "alive"
    /\ Len(blocks_) < MaxBlocks
    /\ ptr \notin held
    /\ SetRes(do_allocate(Res, NodeBytes, NodeAlign, ptr))
    /\ nodeFrees' = Append(nodeFrees, 0)
    /\ everReturned' = everReturned \cup {ptr}
    /\ IF ctorOK
       THEN LET m == [mem EXCEPT ![ptr] = QueueNode(value)]
                l == push_link(head_[q], tail_[q], size_[q], m, ptr)
            IN /\ mem' = l.mem
               /\ head_' = [head_ EXCEPT ![q] = l.head]
               /\ tail_' = [tail_ EXCEPT ![q] = l.tail]
               /\ size_' = [size_ EXCEPT ![q] = l.size]
               /\ constructed' = constructed \cup {ptr}
               /\ pending' = [pending EXCEPT ![q] = Append(@, value)]
               /\ origin' = Append(origin, q)
               /\ lastOp' = Op("push", q, NULL, "none")
       ELSE /\ origin' = Append(origin, "lost")
            /\ lastOp' = Op("push", q, NULL, "ctor")
            /\ UNCHANGED <<mem, constructed, qvars>>
    /\ UNCHANGED <<qpc, rpc, callerOwns, dtorReleased, dtorVisited, iters>>

\* q.push(value) when the allocation throws std::bad_alloc
PushOOM(q, value) ==
    /\ Idle /\ qpc[q] = "alive"
    /\ lastOp' = Op("push", q, NULL, "bad_alloc")
    /\ UNCHANGED <<blocks_, held, doubleFree, mem, constructed, qvars, qpc, rpc, hist, iters>>

\* destroy + deallocate of node tmp, as pop and ~pmr_queue do it
ReleaseNode(tmp) ==
    /\ constructed' = constructed \ {tmp}
    /\ mem' = [mem EXCEPT ![tmp] = Indeterminate]
    /\ SetRes(do_deallocate(Res, tmp, NodeBytes, NodeAlign))
    /\ nodeFrees' = [nodeFrees EXCEPT ![NodeIndex(tmp)] = @ + 1]

\* pop that drops the whole chain instead of advancing head_
pop_unlink_clear(head, tail, sz, m) ==
    [head |-> NULL, tail |-> NULL, size |-> sz - 1]

\* pop that forgets `--size_`
pop_unlink_keepsize(head, tail, sz, m) ==
    LET h == m[head].next IN
    [head |-> h, tail |-> IF h = NULL THEN NULL ELSE tail, size |-> sz]

\* pop that forgets to reset tail_ when the chain empties
pop_unlink_keeptail(head, tail, sz, m) ==
    [head |-> m[head].next, tail |-> tail, size |-> sz - 1]

\* The unlinking part of pop: head advances, tail follows when the chain empties.
pop_unlink(head, tail, sz, m) ==
    LET h == m[head].next IN
    [head |-> h, tail |-> IF h = NULL THEN NULL ELSE tail, size |-> sz - 1]

\* pop that returns silently on an empty queue
PopSilent(q) ==
    /\ Idle /\ qpc[q] = "alive"
    /\ IF head_[q] = NULL
       THEN /\ lastOp' = Op("pop", q, NULL, "none")
            /\ UNCHANGED <<blocks_, held, doubleFree, mem, constructed, qvars, nodeFrees>>
       ELSE LET tmp == head_[q]
                u == pop_unlink(head_[q], tail_[q], size_[q], mem)
            IN /\ head_' = [head_ EXCEPT ![q] = u.head]
               /\ tail_' = [tail_ EXCEPT ![q] = u.tail]
               /\ size_' = [size_ EXCEPT ![q] = u.size]
               /\ ReleaseNode(tmp)
               /\ pending' = [pending EXCEPT ![q] = Tail(@)]
               /\ lastOp' = Op("pop", q, NULL, "none")
    /\ UNCHANGED <<qpc, rpc, origin, callerOwns, everReturned, dtorReleased, dtorVisited, iters>>

\* pop that releases head_ after advancing it, instead of tmp
PopReleasesNewHead(q) ==
    /\ Idle /\ qpc[q] = "alive"
    /\ IF head_[q] = NULL
       THEN /\ lastOp' = Op("pop", q, NULL, "runtime_error")
            /\ UNCHANGED <<blocks_, held, doubleFree, mem, constructed, qvars, nodeFrees>>
       ELSE LET tmp == head_[q]
                u == pop_unlink(head_[q], tail_[q], size_[q], mem)
            IN /\ head_' = [head_ EXCEPT ![q] = u.head]
               /\ tail_' = [tail_ EXCEPT ![q] = u.tail]
               /\ size_' = [size_ EXCEPT ![q] = u.size]
               /\ ReleaseNode(IF u.head # NULL THEN u.head ELSE tmp)
               /\ pending' = [pending EXCEPT ![q] = Tail(@)]
               /\ lastOp' = Op("pop", q, NULL, "none")
    /\ UNCHANGED <<qpc, rpc, origin, callerOwns, everReturned, dtorReleased, dtorVisited, iters>>

\* q.pop()
Pop(q) ==
    /\ Idle /\ qpc[q] = "alive"
    /\ IF head_[q] = NULL
       THEN /\ lastOp' = Op("pop", q, NULL, "runtime_error")
            /\ UNCHANGED <<blocks_, held, doubleFree, mem, constructed, qvars, nodeFrees>>
       ELSE LET tmp == head_[q]
                u == pop_unlink(head_[q], tail_[q], size_[q], mem)
            IN /\ head_' = [head_ EXCEPT ![q] = u.head]
               /\ tail_' = [tail_ EXCEPT ![q] = u.tail]
               /\ size_' = [size_ EXCEPT ![q] = u.size]
               /\ ReleaseNode(tmp)
               /\ pending' = [pending EXCEPT ![q] = Tail(@)]
               /\ lastOp' = Op("pop", q, NULL, "none")
    /\ UNCHANGED <<qpc, rpc, origin, callerOwns, everReturned, dtorReleased, dtorVisited, iters>>

\* q.front()
Front(q) ==
    /\ Idle /\ qpc[q] = "alive"
    /\ IF head_[q] = NULL
       THEN lastOp' = Op("front", q, NULL, "runtime_error")
       ELSE lastOp' = Op("front", q, NULL, "none")
    /\ UNCHANGED <<blocks_, held, doubleFree, mem, constructed, qvars, qpc, rpc, hist, iters>>

\* ~pmr_queue is entered
QueueDtorEnter(q) ==
    /\ Idle /\ qpc[q] = "alive"
    /\ qpc' = [qpc EXCEPT ![q] = "destroying"]
    /\ lastOp' = Op("~queue", q, NULL, "none")
    /\ UNCHANGED <<blocks_, held, doubleFree, mem, constructed, qvars, rpc, hist, iters>>

\* a destructor loop that unlinks the node without releasing it
QueueDtorLoopLeak(q) ==
    /\ qpc[q] = "destroying"
    /\ head_[q] # NULL
    /\ head_' = [head_ EXCEPT ![q] = mem[head_[q]].next]
    /\ lastOp' = Op("~queue", q, NULL, "none")
    /\ UNCHANGED <<blocks_, held, doubleFree, mem, constructed, tail_, size_, pending,
                   qpc, rpc, hist, iters>>

\* a destructor that releases the head node only (`if` in place of `while`)
QueueDtorLoopOnce(q) ==
    /\ qpc[q] = "destroying"
    /\ head_[q] # NULL
    /\ LET tmp == head_[q] IN
         /\ head_' = [head_ EXCEPT ![q] = NULL]
         /\ ReleaseNode(tmp)
         /\ dtorVisited' = [dtorVisited EXCEPT ![q] = Append(@, mem[tmp].value)]
    /\ lastOp' = Op("~queue", q, NULL, "none")
    /\ UNCHANGED <<tail_, size_, pending, qpc, rpc, origin, callerOwns,
                   everReturned, dtorReleased, iters>>

\* one iteration of the while loop of ~pmr_queue
QueueDtorLoop(q) ==
    /\ qpc[q] = "destroying"
    /\ head_[q] # NULL
    /\ LET tmp == head_[q] IN
         /\ head_' = [head_ EXCEPT ![q] = mem[tmp].next]
         /\ ReleaseNode(tmp)
         /\ dtorVisited' = [dtorVisited EXCEPT ![q] = Append(@, mem[tmp].value)]
    /\ lastOp' = Op("~queue", q, NULL, "none")
    /\ UNCHANGED <<tail_, size_, pending, qpc, rpc, origin, callerOwns,
                   everReturned, dtorReleased, iters>>

\* the while loop of ~pmr_queue ends
QueueDtorExit(q) ==
    /\ qpc[q] = "destroying"
    /\ head_[q] = NULL
    /\ qpc' = [qpc EXCEPT ![q] = "destroyed"]
    /\ lastOp' = Op("~queue", q, NULL, "none")
    /\ UNCHANGED <<blocks_, held, doubleFree, mem, constructed, qvars, rpc, hist, iters>>

\* ---------------------------------------------------------- iterator operations
\* Everything but lastOp and iters, which is all an iterator operation may touch.
notIter == <<blocks_, held, doubleFree, mem, constructed, qvars, qpc, rpc, hist>>

\* it = q.begin()
IterBegin(i, q) ==
    /\ Idle /\ qpc[q] = "alive"
    /\ iters' = [iters EXCEPT ![i] = begin(q)]
    /\ lastOp' = Op("begin", q, i, "none")
    /\ UNCHANGED notIter

\* it = q.end(), and equally it = QueueIterator()
IterEnd(i, q) ==
    /\ Idle /\ qpc[q] = "alive"
    /\ iters' = [iters EXCEPT ![i] = end(q)]
    /\ lastOp' = Op("end", q, i, "none")
    /\ UNCHANGED notIter

\* i = j: the implicit copy of node_
IterCopy(i, j) ==
    /\ Idle /\ i # j
    /\ iters' = [iters EXCEPT ![i] = iters[j]]
    /\ lastOp' = Op("copy", "", i, "none")
    /\ UNCHANGED notIter

\* The positions ++ can leave an iterator at that was at node_: the code reads
\* node_->next, which is undefined when no node object lives at node_.
IncOutcomes(node_) ==
    IF node_ = NULL \/ node_ \in constructed THEN {IterInc(node_)}
    ELSE Addr \cup {NULL}

IncErr(node_) == IF node_ = NULL \/ node_ \in constructed THEN "none" ELSE "undefined"

\* ++i, leaving i at position to
IterPreInc(i, to) ==
    /\ Idle
    /\ to \in IncOutcomes(iters[i])
    /\ iters' = [iters EXCEPT ![i] = to]
    /\ lastOp' = Op("++", "", i, IncErr(iters[i]))
    /\ UNCHANGED notIter

\* a post-increment that returns the advanced iterator
IterPostIncNew(i, j, to) ==
    /\ Idle /\ i # j
    /\ to \in IncOutcomes(iters[i])
    /\ iters' = [iters EXCEPT ![i] = to, ![j] = to]
    /\ lastOp' = Op("++(int)", "", i, IncErr(iters[i]))
    /\ UNCHANGED notIter

\* j = i++: tmp = *this; ++(*this); return tmp
IterPostInc(i, j, to) ==
    /\ Idle /\ i # j
    /\ to \in IncOutcomes(iters[i])
    /\ iters' = [iters EXCEPT ![i] = to, ![j] = iters[i]]
    /\ lastOp' = Op("++(int)", "", i, IncErr(iters[i]))
    /\ UNCHANGED notIter

\* *i and i->: node_->value is read without any test of node_, so at the end
\* position or at a destroyed node the behaviour is undefined.
IterStar(i) ==
    /\ Idle
    /\ lastOp' = Op("*", "", i, IF iters[i] \in constructed THEN "none" ELSE "undefined")
    /\ UNCHANGED <<iters, notIter>>

\* the calls a program makes on one queue and its iterators
NextIter ==
    \/ \E q \in Queues, v \in Value, ptr \in Addr : Push(q, v, ptr, TRUE)
    \/ \E q \in Queues : Pop(q)
    \/ \E q \in Queues : QueueDtorEnter(q)
    \/ \E q \in Queues : QueueDtorLoop(q)
    \/ \E q \in Queues : QueueDtorExit(q)
    \/ \E i \in Iters, q \in Queues : IterBegin(i, q)
    \/ \E i \in Iters, q \in Queues : IterEnd(i, q)
    \/ \E i, j \in Iters : IterCopy(i, j)
    \/ \E i \in Iters, to \in Addr \cup {NULL} : IterPreInc(i, to)
    \/ \E i, j \in Iters, to \in Addr \cup {NULL} : IterPostInc(i, j, to)
    \/ \E i \in Iters : IterStar(i)

\* the calls main makes on two queues sharing the resource
NextTwo ==
    \/ \E q \in Queues, v \in Value, ptr \in Addr, ok \in BOOLEAN : Push(q, v, ptr, ok)
    \/ \E q \in Queues : Pop(q)
    \/ \E q \in Queues : QueueDtorEnter(q)
    \/ \E q \in Queues : QueueDtorLoop(q)
    \/ \E q \in Queues : QueueDtorExit(q)
    \/ ResourceDtor

Next ==
    \/ \E r \in Requests, ptr \in Addr : Allocate(r[1], r[2], ptr)
    \/ \E r \in Requests : AllocateOOM(r[1], r[2])
    \/ \E p \in Addr, r \in Requests : Deallocate(p, r[1], r[2])
    \/ ResourceDtor
    \/ \E q \in Queues, v \in Value, ptr \in Addr, ok \in BOOLEAN : Push(q, v, ptr, ok)
    \/ \E q \in Queues, v \in Value : PushOOM(q, v)
    \/ \E q \in Queues : Pop(q)
    \/ \E q \in Queues : Front(q)
    \/ \E q \in Queues : QueueDtorEnter(q)
    \/ \E q \in Queues : QueueDtorLoop(q)
    \/ \E q \in Queues : QueueDtorExit(q)

Spec == Init /\ [][Next]_vars

\* A destructor that was entered runs on: the program is single-threaded and
\* nothing else is enabled while the loop runs.
SpecLive ==
    /\ Init /\ [][Next]_vars
    /\ \A q \in Queues : WF_vars(QueueDtorLoop(q)) /\ WF_vars(QueueDtorExit(q))

SpecIter == Init /\ [][NextIter]_vars

SpecTwo == InitTwo /\ [][NextTwo]_vars

TypeOK ==
    /\ held \subseteq Addr
    /\ Len(origin) = Len(blocks_) /\ Len(nodeFrees) = Len(blocks_)

\* ---------------------------------------------------------------- properties
Blocks == 1..Len(blocks_)
NodeBlocks(q) == {i \in Blocks : origin[i] = q}
LiveBlocks == {i \in Blocks : blocks_[i].allocated}
NoDuplicates(s) == \A i, j \in 1..Len(s) : s[i] = s[j] => i = j

\* C1: FIFO order. Iterating a queue from begin() to end() yields exactly the
\* values pushed and not yet popped, oldest first, and size() is their number.
C1_FifoOrder ==
    \A q \in Queues : qpc[q] = "alive" =>
        /\ Iterate(q) = pending[q]
        /\ size(q) = Len(pending[q])

\* two different values queued behind an element that was already popped
C1_Witness ==
    /\ qpc["q1"] = "alive"
    /\ Len(pending["q1"]) = 2 /\ pending["q1"][1] # pending["q1"][2]
    /\ \E i \in NodeBlocks("q1") : nodeFrees[i] = 1

\* C2: pop() on a non-empty queue removes exactly the oldest element: size()
\* drops by one, the other elements keep their order, and front() is then the
\* element that was second-oldest.
C2_PopRemovesOldest ==
    [][\A q \in Queues : (Pop(q) /\ ~empty(q)) =>
          /\ size(q)' = size(q) - 1
          /\ Iterate(q)' = Tail(Iterate(q))
          /\ (~empty(q)') => front(q)' = Iterate(q)[2]]_vars

\* a pop has just left a non-empty queue behind
C2_Witness ==
    /\ lastOp = Op("pop", "q1", NULL, "none")
    /\ ~empty("q1") /\ size("q1") >= 1

\* C3: on an empty queue front() and pop() throw the empty-queue error and
\* leave the queue and the resource's block records as they were.
C3_EmptyQueueError ==
    [][\A q \in Queues : (pending[q] = <<>> /\ (Pop(q) \/ Front(q))) =>
          /\ lastOp'.err = "runtime_error"
          /\ UNCHANGED <<head_, tail_, size_, blocks_, held, mem, qpc>>
          /\ size(q)' = 0]_vars

\* pop() or front() has just failed on a queue that was emptied by pops
C3_Witness ==
    /\ lastOp.op \in {"pop", "front"} /\ lastOp.q = "q1"
    /\ lastOp.err = "runtime_error"
    /\ \E i \in NodeBlocks("q1") : nodeFrees[i] = 1

\* C4: queue structure. count = 0 iff head is none iff tail is none; a
\* non-empty chain has exactly count distinct nodes, ends at tail, and
\* tail.next is none.
C4_QueueStructure ==
    \A q \in Queues : qpc[q] = "alive" =>
        /\ (size_[q] = 0) <=> (head_[q] = NULL)
        /\ (head_[q] = NULL) <=> (tail_[q] = NULL)
        /\ size_[q] >= 0
        /\ size_[q] > 0 =>
             LET c == Chain(q) IN
             /\ Len(c) = size_[q]
             /\ NULL \notin SeqRange(c)
             /\ NoDuplicates(c)
             /\ c[Len(c)] = tail_[q]
             /\ mem[tail_[q]].next = NULL

\* a push has just made a chain of two nodes, after an earlier pop
C4_Witness ==
    /\ lastOp = Op("push", "q1", NULL, "none")
    /\ size_["q1"] = 2 /\ head_["q1"] # tail_["q1"]
    /\ \E i \in NodeBlocks("q1") : nodeFrees[i] = 1

\* C5: round trip. Once everything pushed onto a queue has been popped, the
\* resource has no live block record left for the queue's nodes.
C5_RoundTripNoLeak ==
    \A q \in Queues : (qpc[q] = "alive" /\ pending[q] = <<>> /\ empty(q)) =>
        \A i \in NodeBlocks(q) : ~blocks_[i].allocated

\* C6: node lifecycle. Every node a successful push created is handed to the
\* allocator's deallocate at most once, and exactly once by the time its
\* queue is destroyed; no node object outlives its queue.
C6_NodeFreedOnce ==
    \A q \in Queues : \A i \in NodeBlocks(q) :
        /\ nodeFrees[i] <= 1
        /\ (nodeFrees[i] = 0 /\ qpc[q] = "alive") => blocks_[i].ptr \in SeqRange(Chain(q))
        /\ qpc[q] = "destroyed" =>
             /\ nodeFrees[i] = 1
             /\ blocks_[i].ptr \notin constructed

\* a queue destroyed with elements still in it, after a pop
C6_Witness ==
    /\ qpc["q1"] = "destroyed"
    /\ Len(pending["q1"]) = 2
    /\ Cardinality(NodeBlocks("q1")) = 3

\* C7: ~DynamicVectorMemoryResource releases every block whose record is live
\* exactly once and no other block; afterwards nothing is held.
C7_ResourceDtorReleasesLive ==
    rpc = "destroyed" =>
        /\ Len(dtorReleased) = Cardinality(LiveBlocks)
        /\ NoDuplicates(dtorReleased)
        /\ SeqRange(dtorReleased) = {blocks_[i].ptr : i \in LiveBlocks}
        /\ ~doubleFree
        /\ held = {}

\* the resource destroyed with two live records and one released one
C7_Witness ==
    /\ rpc = "destroyed"
    /\ Len(dtorReleased) = 2
    /\ Cardinality(Blocks \ LiveBlocks) = 1

\* C8: deallocate(p) of an address the caller got from allocate and has not
\* deallocated since releases p and leaves no live record for p.
C8_DeallocateReleases ==
    [][\A p \in Addr :
          (p \in callerOwns /\ \E r \in Requests : Deallocate(p, r[1], r[2])) =>
              /\ p \notin held'
              /\ \A i \in 1..Len(blocks_') : blocks_'[i].ptr = p => ~blocks_'[i].allocated]_vars

\* C9: deallocate(p) of an address the caller does not hold from allocate
\* (never returned, or deallocated before) is a silent no-op on the records
\* and on the system allocator.
C9_DeallocateNoOp ==
    [][\A p \in Addr :
          (p \notin callerOwns /\ \E r \in Requests : Deallocate(p, r[1], r[2])) =>
              /\ UNCHANGED <<blocks_, held, doubleFree>>
              /\ lastOp'.err = "none"]_vars

\* deallocate has just been called with an address allocate never returned,
\* while the resource tracks a live and a released block
C9_Witness ==
    /\ lastOp.op = "deallocate" /\ lastOp.arg \notin everReturned
    /\ LiveBlocks # {} /\ Blocks \ LiveBlocks # {}

\* C10: every address allocate ever returned has exactly one block record.
C10_BlockRecordUnique ==
    \A a \in everReturned : Cardinality({i \in Blocks : blocks_[i].ptr = a}) = 1

\* ------------------------------------------------------- iterator properties
\* Iterator i is at the end position or at a live node linked in a queue.
IterOK(i) ==
    \/ iters[i] = NULL
    \/ /\ iters[i] \in constructed
       /\ \E q \in Queues : qpc[q] \in {"alive", "destroying"} /\ iters[i] \in SeqRange(Chain(q))

\* The step destroys the node some iterator is positioned at.
RemovesIteratedNode ==
    \E q \in Queues :
        /\ \E i \in Iters : iters[i] = head_[q] /\ iters[i] # NULL
        /\ Pop(q) \/ QueueDtorLoop(q)

\* C11 as stated: every iterator is always at a linked live node or at end.
C11_IteratorsLive == \A i \in Iters : IterOK(i)

\* C11 amended: iterators at linked live nodes or at end stay so under every
\* operation except a pop() or destructor iteration that destroys the node an
\* iterator is positioned at.
C11_IteratorsLiveUnlessPopped ==
    [][\/ \A i \in Iters : IterOK(i)'
       \/ ~(\A i \in Iters : IterOK(i))
       \/ RemovesIteratedNode]_vars

\* an iterator advanced to the second node is still at a linked node after
\* the first node was popped
C11_Witness ==
    /\ lastOp = Op("pop", "q1", NULL, "none")
    /\ iters[1] # NULL /\ iters[1] = head_["q1"] /\ iters[1] \in constructed

\* C12: dereferencing an iterator at the end position reports an
\* invalid-dereference error.
C12_EndDerefReported ==
    [][\A i \in Iters : (IterStar(i) /\ iters[i] = NULL)
          => lastOp'.err = "invalid_dereference"]_vars

\* The step is an operation on iterators.
IterStep ==
    \/ \E i \in Iters, q \in Queues : IterBegin(i, q) \/ IterEnd(i, q)
    \/ \E i, j \in Iters : IterCopy(i, j)
    \/ \E i \in Iters : IterPreInc(i, iters'[i])
    \/ \E i, j \in Iters : IterPostInc(i, j, iters'[i])
    \/ \E i \in Iters : IterStar(i)

\* C13: iterator copies are independent. A copy takes the position of the
\* original and leaves it alone, advancing one iterator leaves the other where
\* it was, post-increment returns the position held before the advance, and
\* no iterator operation changes head, tail or size of a queue.
C13_IteratorsIndependent ==
    [][/\ lastOp'.op = "copy" =>
             \A i, j \in Iters :
                 IterCopy(i, j) => (iters'[i] = iters[j] /\ iters'[j] = iters[j])
       /\ lastOp'.op = "++" =>
             \A i, j \in Iters :
                 (IterPreInc(i, iters'[i]) /\ i # j) => iters'[j] = iters[j]
       /\ lastOp'.op = "++(int)" =>
             \A i, j \in Iters :
                 IterPostInc(i, j, iters'[i]) => iters'[j] = iters[i]
       /\ UNCHANGED <<head_, tail_, size_>> \/ ~IterStep]_vars

\* iterator 1 has just been advanced to the second node while iterator 2
\* stays at the head
C13_Witness ==
    /\ lastOp.op \in {"++", "++(int)"} /\ lastOp.arg = 1
    /\ iters[2] # NULL /\ iters[2] = head_["q1"]
    /\ iters[1] # NULL /\ iters[1] = mem[iters[2]].next

\* ------------------------------------------------------ two queues, one resource
\* The step is a call on queue q (or a step of its destructor).
StepOn(q) ==
    \/ \E v \in Value, ptr \in Addr, ok \in BOOLEAN : Push(q, v, ptr, ok)
    \/ \E v \in Value : PushOOM(q, v)
    \/ Pop(q) \/ Front(q)
    \/ QueueDtorEnter(q) \/ QueueDtorLoop(q) \/ QueueDtorExit(q)

\* C14: two queues on one resource never link the same node address, and a
\* call on one queue leaves the other queue's elements, head, tail and size
\* unchanged.
C14_QueuesDoNotAlias ==
    [][/\ (SeqRange(Chain("q1")) \cap SeqRange(Chain("q2")) = {})'
       /\ \A q, o \in Queues : q # o =>
             \/ /\ head_'[o] = head_[o] /\ tail_'[o] = tail_[o] /\ size_'[o] = size_[o]
                /\ Iterate(o)' = Iterate(o)
                /\ Chain(o)' = Chain(o)
             \/ ~StepOn(q)]_vars

\* both queues hold elements, and a node of q2 lives at an address that a
\* node of q1 had before
C14_Witness ==
    /\ ~empty("q1") /\ ~empty("q2")
    /\ \E i \in NodeBlocks("q1"), j \in NodeBlocks("q2") :
          i < j /\ blocks_[i].ptr = blocks_[j].ptr /\ blocks_[j].ptr \in SeqRange(Chain("q2"))

\* C15: empty(), size() == 0 and begin() == end() agree on every live queue,
\* all three hold of a fresh queue, and begin() / end() return the position
\* of the current head / the end position at the time of the call.
C15_EmptinessObserversAgree ==
    /\ \A q \in Queues : qpc[q] = "alive" =>
          /\ empty(q) <=> (size(q) = 0)
          /\ (size(q) = 0) <=> (begin(q) = end(q))
          /\ pending[q] = <<>> => (empty(q) /\ size(q) = 0 /\ begin(q) = end(q))
    /\ lastOp.op = "begin" => iters[lastOp.arg] = head_[lastOp.q]
    /\ lastOp.op = "end" => iters[lastOp.arg] = NULL

\* begin() has just been called on a queue whose first element was popped
\* and which still holds an element
C15_Witness ==
    /\ lastOp = Op("begin", "q1", 1, "none")
    /\ iters[1] # NULL /\ size("q1") = 1
    /\ \E i \in NodeBlocks("q1") : nodeFrees[i] = 1

\* ------------------------------------------------------------- failing pushes
\* C16: a push that fails, by std::bad_alloc or by a throwing value
\* constructor, leaves head, tail, size, every next link of the chain and the
\* element sequence as they were.
C16_FailedPushKeepsChain ==
    [][\A q \in Queues :
          (\E v \in Value : PushOOM(q, v) \/ \E ptr \in Addr : Push(q, v, ptr, FALSE)) =>
              /\ lastOp'.err \in {"bad_alloc", "ctor"}
              /\ UNCHANGED <<head_, tail_, size_>>
              /\ Chain(q)' = Chain(q)
              /\ Iterate(q)' = Iterate(q)
              /\ \A a \in SeqRange(Chain(q)) : mem'[a] = mem[a]]_vars

\* a push has just failed in the value constructor on a queue of one element
C16_Witness ==
    /\ lastOp = Op("push", "q1", NULL, "ctor")
    /\ size("q1") = 1 /\ Len(Chain("q1")) = 1

\* The position that follows node n in the chain of queue q: the next linked
\* node, NULL after the last one.
Successor(q, n) ==
    LET c == Chain(q)
        k == CHOOSE k \in 1..Len(c) : c[k] = n
    IN IF k < Len(c) THEN c[k + 1] ELSE NULL

\* C17: ++ from a live linked node N moves to the position after N in the
\* chain (the end position after the tail), and ++ at the end position is a
\* no-op that reports nothing.
C17_AdvanceFollowsChain ==
    [][\A i \in Iters :
          (/\ lastOp'.op \in {"++", "++(int)"} /\ lastOp'.arg = i
           /\ IterPreInc(i, iters'[i]) \/ \E j \in Iters : IterPostInc(i, j, iters'[i])) =>
              /\ iters[i] = NULL => (iters'[i] = NULL /\ lastOp'.err = "none")
              /\ \A q \in Queues :
                   (qpc[q] = "alive" /\ iters[i] \in SeqRange(Chain(q))) =>
                       /\ iters'[i] = Successor(q, iters[i])
                       /\ iters[i] = tail_[q] => iters'[i] = end(q)
                       /\ lastOp'.err = "none"]_vars

\* iterator 1 has just been advanced from the head to the tail of a queue of
\* two elements
C17_Witness ==
    /\ lastOp = Op("++", "", 1, "none")
    /\ size("q1") = 2
    /\ iters[1] = tail_["q1"] /\ iters[1] # head_["q1"]

\* ------------------------------------------------------------------- teardown
\* The nodes of q that were not yet handed to deallocate.
Unreleased(q) == {i \in NodeBlocks(q) : nodeFrees[i] = 0}

\* Inside and after ~pmr_queue: the values destroyed so far, followed by the
\* values still linked, are the k elements the queue held on entry, so the
\* loop walks head to tail with one node destroyed and deallocated per
\* iteration; once it has ended head is none and it has made k iterations.
DtorProgress(q) ==
    /\ qpc[q] \in {"destroying", "destroyed"} =>
          /\ dtorVisited[q] \o Iterate(q) = pending[q]
          /\ Cardinality(Unreleased(q)) = Len(Chain(q))
          /\ Len(dtorVisited[q]) + Len(Chain(q)) = Len(pending[q])
    /\ qpc[q] = "destroyed" =>
          /\ head_[q] = NULL
          /\ Len(dtorVisited[q]) = Len(pending[q])

\* C18: ~pmr_queue terminates: for a queue of k nodes the loop ends after
\* exactly k iterations with head none, having visited the nodes head to tail
\* and deallocated one node per iteration.
C18_TeardownTerminates ==
    /\ [](\A q \in Queues : DtorProgress(q))
    /\ \A q \in Queues : (qpc[q] = "destroying") ~> (qpc[q] = "destroyed")

\* the destructor has ended on a queue that held two elements on entry
C18_Witness ==
    /\ qpc["q1"] = "destroyed"
    /\ Len(dtorVisited["q1"]) = 2 /\ dtorVisited["q1"][1] # dtorVisited["q1"][2]

\* ------------------------------------------------- tracking and the allocator
\* C19: while the resource lives, an address is held from the system
\* allocator iff the resource has a live record for it, with at most one live
\* record per address; and neither deallocate nor the destructor ever hands
\* ::operator delete an address that is not held.
C19_TrackingAgrees ==
    /\ ~doubleFree
    /\ \A i, j \in LiveBlocks : blocks_[i].ptr = blocks_[j].ptr => i = j
    /\ rpc = "alive" => held = {blocks_[i].ptr : i \in LiveBlocks}
    /\ rpc = "destroyed" => held = {}

\* deallocate has just been called for an address that was released once and
\* handed out again
C19_Witness ==
    /\ lastOp.op = "deallocate"
    /\ \E i, j \in Blocks : i < j /\ blocks_[i].ptr = lastOp.arg /\ blocks_[j].ptr = lastOp.arg

\* C20: the live block records for node storage never outnumber the elements
\* of the queue.
C20_NoStorageBeyondSize ==
    qpc["q1"] = "alive" =>
        Cardinality({i \in LiveBlocks : origin[i] # "caller"}) <= size("q1")

====
